---- MODULE Spec2Model ----
(***************************************************************************)
(* The dependency-injection container of pkg/container/container.go:       *)
(* a registry from string qualifiers to service instances (Register,       *)
(* Resolve) and reflective injection of registered instances into the      *)
(* `di`-tagged fields of a target structure (InjectStruct).                *)
(*                                                                         *)
(* A Go interface value is a pair (dynamic type, pointer).  The untyped    *)
(* nil is the pair without a dynamic type; a nil pointer of a concrete     *)
(* pointer type keeps its type and has pointer 0.  `service == nil` is     *)
(* true of the first only.                                                 *)
(***************************************************************************)
EXTENDS Integers, Sequences, FiniteSets, TLC

\* Number of distinct non-nil *testServiceImpl instances the caller creates.
MaxInstances == 2

\* Number of goroutines calling the container concurrently.
NumThreads == 2

----------------------------------------------------------------------------
(* Types and values *)

NoType == "untyped nil"
TestServiceImplPtr == "*testServiceImpl"
UserServicePtr == "*userService"
TestService == "TestService"

ConcreteTypes == {TestServiceImplPtr, UserServicePtr}
InterfaceTypes == {TestService}

\* The method set of *testServiceImpl holds GetName; that of *userService
\* does not.
Implements(t, iface) == iface = TestService /\ t = TestServiceImplPtr

\* reflect.Type.AssignableTo for the types above: identical types, or an
\* interface type the value's type implements.
AssignableTo(t, u) == t = u \/ (u \in InterfaceTypes /\ Implements(t, u))

NilInterface == [type |-> NoType, ptr |-> 0]

Instance(t, p) == [type |-> t, ptr |-> p]

\* The values the caller passes in the interface{} parameter of Register:
\* the untyped nil, a nil *testServiceImpl, the *testServiceImpl instances
\* and one *userService instance.
ServiceArgs ==
    {NilInterface, Instance(UserServicePtr, 1)}
        \cup {Instance(TestServiceImplPtr, p) : p \in 0..MaxInstances}

\* service == nil  (comparison of an interface value with nil)
IsNilInterface(service) == service.type = NoType

\* A value that refers to no object: the untyped nil or a nil pointer.
IsAbsent(v) == v.ptr = 0

\* The zero value of a field of declared type t.
ZeroValue(t) == IF t \in InterfaceTypes THEN NilInterface ELSE Instance(t, 0)

----------------------------------------------------------------------------
(* Errors *)

NoError == "nil"
InvalidService == "InvalidService"
DuplicateQualifier == "DuplicateQualifier"
NotFound == "NotFound"
InvalidTarget == "InvalidTarget"
TypeMismatch == "TypeMismatch"
Panic == "panic"
UnsettableField == "UnsettableField"

----------------------------------------------------------------------------
(* Target structures *)

Qualifiers == {"testService", "optionalService", "privateService"}

Field(name, tagged, qualifier, exported, type) ==
    [name |-> name, tagged |-> tagged, qualifier |-> qualifier,
     exported |-> exported, type |-> type]

TestStruct ==
    << Field("Service", TRUE, "testService", TRUE, TestService),
       Field("Optional", TRUE, "optionalService", TRUE, TestService),
       Field("NoTag", FALSE, "", TRUE, TestService),
       Field("private", TRUE, "privateService", FALSE, TestService) >>

\* A second caller-declared structure: the unexported field first, two
\* fields tagged with the same qualifier, one field of a concrete type.
MixedStruct ==
    << Field("private", TRUE, "testService", FALSE, TestService),
       Field("NoTag", FALSE, "", TRUE, TestService),
       Field("Impl", TRUE, "optionalService", TRUE, TestServiceImplPtr),
       Field("Service", TRUE, "testService", TRUE, TestService) >>

StructTypes == {TestStruct, MixedStruct}

\* A structure whose tagged fields are all exported.
ExportedStruct ==
    << Field("Service", TRUE, "testService", TRUE, TestService),
       Field("NoTag", FALSE, "", TRUE, TestService),
       Field("Impl", TRUE, "optionalService", TRUE, TestServiceImplPtr) >>

\* reflect.Kind of the value handed to InjectStruct, and of what it points to.
Target(kind, isNil, elem) == [kind |-> kind, isNil |-> isNil, elem |-> elem]

NilTarget == Target("Invalid", TRUE, "Invalid")
StructByValue == Target("Struct", FALSE, "Invalid")
PtrToString == Target("Ptr", FALSE, "String")
NilPtrToString == Target("Ptr", TRUE, "String")
NilPtrToStruct == Target("Ptr", TRUE, "Struct")
PtrToStruct == Target("Ptr", FALSE, "Struct")

TargetArgs ==
    {NilTarget, StructByValue, PtrToString, NilPtrToString, NilPtrToStruct, PtrToStruct}

----------------------------------------------------------------------------
VARIABLES
    services,    \* Container.services: qualifier -> registered instance
    structType,  \* the declared type of the caller's target structure
    fields,      \* the values of the fields of the caller's target structure
    call,        \* the call that returned last: its arguments and results
    old,         \* services and fields as they were when that call began
    accepted,    \* qualifier -> instance of the Register call that returned nil
    mu,          \* Container.mu: the reader/writer lock
    threads,     \* the call each calling goroutine is in, and where in it
    plain        \* the container of part_002 and its target, given the same calls

vars == <<services, structType, fields, call, old, accepted, mu, threads, plain>>

----------------------------------------------------------------------------
(* Container.Register *)

\* NewContainer: make(map[string]interface{})
EmptyRegistry == [q \in {} |-> NilInterface]

Put(m, k, v) == [x \in DOMAIN m \cup {k} |-> IF x = k THEN v ELSE m[x]]

\* Register with the map rebuilt on every store: earlier entries are lost.
Register_ReplacesMap(svcs, qualifier, service) ==
    IF IsNilInterface(service)
    THEN [err |-> InvalidService, services |-> svcs]
    ELSE IF qualifier \in DOMAIN svcs
    THEN [err |-> DuplicateQualifier, services |-> svcs]
    ELSE [err |-> NoError, services |-> Put(EmptyRegistry, qualifier, service)]

\* Register without the check for an existing entry.
Register_Overwrites(svcs, qualifier, service) ==
    IF IsNilInterface(service)
    THEN [err |-> InvalidService, services |-> svcs]
    ELSE [err |-> NoError, services |-> Put(svcs, qualifier, service)]

\* Register with the two checks in the other order.
Register_ExistsCheckFirst(svcs, qualifier, service) ==
    IF qualifier \in DOMAIN svcs
    THEN [err |-> DuplicateQualifier, services |-> svcs]
    ELSE IF IsNilInterface(service)
    THEN [err |-> InvalidService, services |-> svcs]
    ELSE [err |-> NoError, services |-> Put(svcs, qualifier, service)]

\* The result of Register: the error returned and the map it leaves.
Register(svcs, qualifier, service) ==
    IF IsNilInterface(service)
    THEN [err |-> InvalidService, services |-> svcs]
    ELSE IF qualifier \in DOMAIN svcs
    THEN [err |-> DuplicateQualifier, services |-> svcs]
    ELSE [err |-> NoError, services |-> Put(svcs, qualifier, service)]

(* Container.Resolve *)

\* Resolve without the `exists` test: a miss returns the map's zero value.
Resolve_NoExistsCheck(svcs, qualifier) ==
    IF qualifier \notin DOMAIN svcs
    THEN [service |-> NilInterface, err |-> NoError, services |-> svcs]
    ELSE [service |-> svcs[qualifier], err |-> NoError, services |-> svcs]

\* Resolve that records a miss in the map (get-or-create).
Resolve_StoresMiss(svcs, qualifier) ==
    IF qualifier \notin DOMAIN svcs
    THEN [service |-> NilInterface, err |-> NotFound,
          services |-> Put(svcs, qualifier, NilInterface)]
    ELSE [service |-> svcs[qualifier], err |-> NoError, services |-> svcs]

\* The result of Resolve: the two values returned and the map it leaves.
Resolve(svcs, qualifier) ==
    IF qualifier \notin DOMAIN svcs
    THEN [service |-> NilInterface, err |-> NotFound, services |-> svcs]
    ELSE [service |-> svcs[qualifier], err |-> NoError, services |-> svcs]

(* Container.InjectStruct *)

\* reflect.Value.CanSet of a field reached through a pointer to the
\* structure: the value is addressable, so it is settable iff exported.
CanSet(field) == field.exported

\* What one iteration of the loop leaves: err and stop (TRUE when the body
\* returns from InjectStruct), the fields of the target, the map, and the
\* qualifiers it passed to Resolve.
Iteration(err, stop, flds, svcs, resolved) ==
    [err |-> err, stop |-> stop, fields |-> flds, services |-> svcs,
     resolved |-> resolved]

\* The loop body without the final fieldValue.Set.
InjectField_SkipsSet(svcs, flds, layout, i) ==
    LET field == layout[i]
        r == Resolve(svcs, field.qualifier)
    IN  IF ~field.tagged
        THEN Iteration(NoError, FALSE, flds, svcs, <<>>)
        ELSE IF ~CanSet(field)
        THEN Iteration(NoError, FALSE, flds, svcs, <<>>)
        ELSE IF r.err # NoError
        THEN Iteration(NoError, FALSE, flds, r.services, <<field.qualifier>>)
        ELSE IF IsNilInterface(r.service)
        THEN Iteration(Panic, TRUE, flds, r.services, <<field.qualifier>>)
        ELSE IF ~AssignableTo(r.service.type, field.type)
        THEN Iteration(TypeMismatch, TRUE, flds, r.services, <<field.qualifier>>)
        ELSE Iteration(NoError, FALSE, flds, r.services, <<field.qualifier>>)

\* The loop body returning the error of a failed Resolve instead of
\* continuing with the next field.
InjectField_FailsOnMissing(svcs, flds, layout, i) ==
    LET field == layout[i]
        r == Resolve(svcs, field.qualifier)
    IN  IF ~field.tagged
        THEN Iteration(NoError, FALSE, flds, svcs, <<>>)
        ELSE IF ~CanSet(field)
        THEN Iteration(NoError, FALSE, flds, svcs, <<>>)
        ELSE IF r.err # NoError
        THEN Iteration(r.err, TRUE, flds, r.services, <<field.qualifier>>)
        ELSE IF IsNilInterface(r.service)
        THEN Iteration(Panic, TRUE, flds, r.services, <<field.qualifier>>)
        ELSE IF ~AssignableTo(r.service.type, field.type)
        THEN Iteration(TypeMismatch, TRUE, flds, r.services, <<field.qualifier>>)
        ELSE Iteration(NoError, FALSE, [flds EXCEPT ![i] = r.service],
                       r.services, <<field.qualifier>>)

\* The loop body wiring a field without a di tag by its type: it takes a
\* registered instance assignable to the field when there is one.
InjectField_WiresUntagged(svcs, flds, layout, i) ==
    LET field == layout[i]
        r == Resolve(svcs, field.qualifier)
        byType == {q \in DOMAIN svcs : AssignableTo(svcs[q].type, field.type)}
    IN  IF ~field.tagged
        THEN IF byType = {}
             THEN Iteration(NoError, FALSE, flds, svcs, <<>>)
             ELSE Iteration(NoError, FALSE,
                            [flds EXCEPT ![i] = svcs[CHOOSE q \in byType : TRUE]],
                            svcs, <<>>)
        ELSE IF ~CanSet(field)
        THEN Iteration(NoError, FALSE, flds, svcs, <<>>)
        ELSE IF r.err # NoError
        THEN Iteration(NoError, FALSE, flds, r.services, <<field.qualifier>>)
        ELSE IF IsNilInterface(r.service)
        THEN Iteration(Panic, TRUE, flds, r.services, <<field.qualifier>>)
        ELSE IF ~AssignableTo(r.service.type, field.type)
        THEN Iteration(TypeMismatch, TRUE, flds, r.services, <<field.qualifier>>)
        ELSE Iteration(NoError, FALSE, [flds EXCEPT ![i] = r.service],
                       r.services, <<field.qualifier>>)

\* The loop body in the order of the plain variant: Resolve first, then
\* an error for a field that cannot be set.
InjectField_FailsOnUnwritable(svcs, flds, layout, i) ==
    LET field == layout[i]
        r == Resolve(svcs, field.qualifier)
    IN  IF ~field.tagged
        THEN Iteration(NoError, FALSE, flds, svcs, <<>>)
        ELSE IF r.err # NoError
        THEN Iteration(NoError, FALSE, flds, r.services, <<field.qualifier>>)
        ELSE IF ~CanSet(field)
        THEN Iteration(InvalidTarget, TRUE, flds, r.services, <<field.qualifier>>)
        ELSE IF IsNilInterface(r.service)
        THEN Iteration(Panic, TRUE, flds, r.services, <<field.qualifier>>)
        ELSE IF ~AssignableTo(r.service.type, field.type)
        THEN Iteration(TypeMismatch, TRUE, flds, r.services, <<field.qualifier>>)
        ELSE Iteration(NoError, FALSE, [flds EXCEPT ![i] = r.service],
                       r.services, <<field.qualifier>>)

\* The body refusing a field that already holds a value.
InjectField_RejectsSetField(svcs, flds, layout, i) ==
    LET field == layout[i]
        r == Resolve(svcs, field.qualifier)
    IN  IF ~field.tagged
        THEN Iteration(NoError, FALSE, flds, svcs, <<>>)
        ELSE IF ~CanSet(field)
        THEN Iteration(NoError, FALSE, flds, svcs, <<>>)
        ELSE IF r.err # NoError
        THEN Iteration(NoError, FALSE, flds, r.services, <<field.qualifier>>)
        ELSE IF IsNilInterface(r.service)
        THEN Iteration(Panic, TRUE, flds, r.services, <<field.qualifier>>)
        ELSE IF ~AssignableTo(r.service.type, field.type)
        THEN Iteration(TypeMismatch, TRUE, flds, r.services, <<field.qualifier>>)
        ELSE IF ~IsNilInterface(flds[i])
        THEN Iteration(InvalidTarget, TRUE, flds, r.services, <<field.qualifier>>)
        ELSE Iteration(NoError, FALSE, [flds EXCEPT ![i] = r.service],
                       r.services, <<field.qualifier>>)

\* One iteration of the loop over the fields: the body for field i.
InjectField(svcs, flds, layout, i) ==
    LET field == layout[i]
        r == Resolve(svcs, field.qualifier)
    IN  IF ~field.tagged
        THEN Iteration(NoError, FALSE, flds, svcs, <<>>)
        ELSE IF ~CanSet(field)
        THEN Iteration(NoError, FALSE, flds, svcs, <<>>)
        ELSE IF r.err # NoError
        THEN Iteration(NoError, FALSE, flds, r.services, <<field.qualifier>>)
        ELSE IF IsNilInterface(r.service)
        THEN Iteration(Panic, TRUE, flds, r.services, <<field.qualifier>>)
        ELSE IF ~AssignableTo(r.service.type, field.type)
        THEN Iteration(TypeMismatch, TRUE, flds, r.services, <<field.qualifier>>)
        ELSE Iteration(NoError, FALSE, [flds EXCEPT ![i] = r.service],
                       r.services, <<field.qualifier>>)

\* The loop remembering the first error and going on with the other fields.
RECURSIVE InjectFields_ContinuesAfterMismatch(_, _, _, _)
InjectFields_ContinuesAfterMismatch(svcs, flds, layout, i) ==
    IF i > Len(layout)
    THEN [err |-> NoError, fields |-> flds, services |-> svcs, resolved |-> <<>>]
    ELSE LET step == InjectField(svcs, flds, layout, i)
             rest == InjectFields_ContinuesAfterMismatch(step.services, step.fields,
                                                         layout, i + 1)
         IN  [rest EXCEPT !.resolved = step.resolved \o rest.resolved,
                          !.err = IF step.stop THEN step.err ELSE rest.err]

\* The loop running from the last field down to the first.
RECURSIVE InjectFields_Reverse(_, _, _, _)
InjectFields_Reverse(svcs, flds, layout, i) ==
    IF i > Len(layout)
    THEN [err |-> NoError, fields |-> flds, services |-> svcs, resolved |-> <<>>]
    ELSE LET step == InjectField(svcs, flds, layout, Len(layout) + 1 - i)
             rest == InjectFields_Reverse(step.services, step.fields, layout, i + 1)
         IN  IF step.stop
             THEN [err |-> step.err, fields |-> step.fields,
                   services |-> step.services, resolved |-> step.resolved]
             ELSE [rest EXCEPT !.resolved = step.resolved \o rest.resolved]

\* The loop from field i to the last field, in declaration order.
RECURSIVE InjectFields(_, _, _, _)
InjectFields(svcs, flds, layout, i) ==
    IF i > Len(layout)
    THEN [err |-> NoError, fields |-> flds, services |-> svcs, resolved |-> <<>>]
    ELSE LET step == InjectField(svcs, flds, layout, i)
             rest == InjectFields(step.services, step.fields, layout, i + 1)
         IN  IF step.stop
             THEN [err |-> step.err, fields |-> step.fields,
                   services |-> step.services, resolved |-> step.resolved]
             ELSE [rest EXCEPT !.resolved = step.resolved \o rest.resolved]

\* The validation without the test that the target is a pointer.
\* Value.Elem panics on a Value that is neither a pointer nor an interface.
ValidateTarget_NoPtrCheck(target) ==
    IF target.kind # "Ptr" \/ target.isNil THEN Panic
    ELSE IF target.elem # "Struct" THEN InvalidTarget
    ELSE NoError

\* The validation of the target, before the loop.  Value.Elem of a nil
\* pointer is the zero Value, and Value.Type of the zero Value panics.
ValidateTarget(target) ==
    IF target.kind # "Ptr" THEN InvalidTarget
    ELSE IF target.isNil THEN Panic
    ELSE IF target.elem # "Struct" THEN InvalidTarget
    ELSE NoError

InjectStruct(svcs, flds, layout, target) ==
    IF ValidateTarget(target) # NoError
    THEN [err |-> ValidateTarget(target), fields |-> flds, services |-> svcs,
          resolved |-> <<>>]
    ELSE InjectFields(svcs, flds, layout, 1)

----------------------------------------------------------------------------
(* sync.RWMutex, as Container.mu uses it *)

Threads == 1..NumThreads
NoThread == 0

\* writer: the goroutine that holds the lock for writing, or has announced
\* itself and waits for the readers to leave.  readers: the goroutines
\* that hold it for reading.  blocked: the goroutines whose RLock waits
\* for the writer to unlock.
Unlocked == [writer |-> NoThread, readers |-> {}, blocked |-> {}]

\* Lock: the writer is admitted once no other writer is.
CanLock(m) == m.writer = NoThread
Lock(m, t) == [m EXCEPT !.writer = t]

\* Lock returns once the readers that held the lock have left.
Locked(m, t) == m.writer = t /\ m.readers = {}

\* Unlock: the readers blocked behind the writer are let in.
Unlock(m) == [writer |-> NoThread, readers |-> m.readers \cup m.blocked,
              blocked |-> {}]

\* RLock: behind a writer the reader blocks, holding or waiting.
RLock(m, t) ==
    IF m.writer # NoThread
    THEN [m EXCEPT !.blocked = @ \cup {t}]
    ELSE [m EXCEPT !.readers = @ \cup {t}]

\* RLock has returned.
RLocked(m, t) == t \in m.readers /\ t \notin m.blocked

RUnlock(m, t) == [m EXCEPT !.readers = @ \ {t}]

\* The call of Lock or RLock that goroutine t made has returned.
Acquired(m, t) == Locked(m, t) \/ RLocked(m, t)

----------------------------------------------------------------------------
(* The container and its caller as a state machine *)

\* The target is either fresh (&TestStruct{}) or has every field already
\* set by the caller to an instance of its own.
Preset(t) == Instance(TestServiceImplPtr, MaxInstances)

Snapshot == [services |-> services, fields |-> fields]

Returned(op, qualifier, service, target, err, ret, resolved) ==
    [op |-> op, qualifier |-> qualifier, service |-> service, target |-> target,
     err |-> err, ret |-> ret, resolved |-> resolved]

\* A goroutine that is in no call of the container.
\* NewContainer of part_002 and a target of its own with the same field
\* values; err and ret are what its last call returned.
PlainContainer(flds) ==
    [services |-> EmptyRegistry, fields |-> flds, err |-> NoError,
     ret |-> NilInterface]

Idle == [pc |-> "idle", op |-> "", qualifier |-> "", service |-> NilInterface,
         i |-> 0, resolved |-> <<>>]

Init ==
    /\ services = EmptyRegistry
    /\ structType \in StructTypes
    /\ fields \in {[i \in 1..Len(structType) |-> ZeroValue(structType[i].type)],
                   [i \in 1..Len(structType) |-> Preset(structType[i].type)]}
    /\ call = Returned("NewContainer", "", NilInterface, NilTarget, NoError,
                       NilInterface, <<>>)
    /\ old = Snapshot
    /\ accepted = EmptyRegistry
    /\ mu = Unlocked
    /\ threads = [t \in Threads |-> Idle]
    /\ plain = PlainContainer(fields)

RegisterCall(qualifier, service) ==
    LET r == Register(services, qualifier, service)
    IN  /\ services' = r.services
        /\ call' = Returned("Register", qualifier, service, NilTarget, r.err,
                            NilInterface, <<>>)
        /\ old' = Snapshot
        /\ accepted' = IF r.err = NoError
                       THEN Put(accepted, qualifier, service)
                       ELSE accepted
        /\ UNCHANGED <<structType, plain, fields, mu, threads>>

ResolveCall(qualifier) ==
    LET r == Resolve(services, qualifier)
    IN  /\ services' = r.services
        /\ call' = Returned("Resolve", qualifier, NilInterface, NilTarget, r.err,
                            r.service, <<>>)
        /\ old' = Snapshot
        /\ UNCHANGED <<structType, plain, fields, accepted, mu, threads>>

InjectStructCall(target) ==
    LET r == InjectStruct(services, fields, structType, target)
    IN  /\ services' = r.services
        /\ fields' = r.fields
        /\ call' = Returned("InjectStruct", "", NilInterface, target, r.err,
                            NilInterface, r.resolved)
        /\ old' = Snapshot
        /\ UNCHANGED <<structType, plain, accepted, mu, threads>>

Next ==
    \/ \E qualifier \in Qualifiers, service \in ServiceArgs :
          RegisterCall(qualifier, service)
    \/ \E qualifier \in Qualifiers : ResolveCall(qualifier)
    \/ \E target \in TargetArgs : InjectStructCall(target)

Spec == Init /\ [][Next]_vars

----------------------------------------------------------------------------
(* The container called by several goroutines.  A step is what a goroutine
   does between two operations on the lock; `call` is the call that
   returned last and `old` the state in which the last InjectStruct call
   began.  The target structure belongs to one caller: one InjectStruct
   call runs at a time, beside the Register and Resolve calls of the
   others. *)

ConcurrentQualifiers == {"testService", "optionalService"}

\* The qualifier the goroutines look up with Resolve themselves; InjectStruct
\* looks up the qualifiers of the fields.
ResolvedQualifiers == {"testService"}

\* The instances the goroutines register: one that fits the fields of the
\* target and one that does not.  The nil test of Register reads no shared
\* state and returns as the exists test does.
ConcurrentServices ==
    {Instance(TestServiceImplPtr, 1), Instance(UserServicePtr, 1)}

ConcurrentTargets == {PtrToStruct, NilTarget}

Running(pc, op, qualifier, service, i, resolved) ==
    [pc |-> pc, op |-> op, qualifier |-> qualifier, service |-> service,
     i |-> i, resolved |-> resolved]

At(t, pc) == threads[t].pc = pc

\* The first writable tagged field at or after field i: the next field for
\* which the loop calls Resolve (Len + 1 when there is none).
RECURSIVE NextResolved(_, _)
NextResolved(layout, i) ==
    IF i > Len(layout) THEN i
    ELSE IF layout[i].tagged /\ CanSet(layout[i]) THEN i
    ELSE NextResolved(layout, i + 1)

InitConcurrent ==
    /\ services = EmptyRegistry
    /\ structType = TestStruct
    /\ fields = [i \in 1..Len(structType) |-> ZeroValue(structType[i].type)]
    /\ call = Returned("NewContainer", "", NilInterface, NilTarget, NoError,
                       NilInterface, <<>>)
    /\ old = Snapshot
    /\ accepted = EmptyRegistry
    /\ mu = Unlocked
    /\ threads = [t \in Threads |-> Idle]
    /\ plain = PlainContainer(fields)

\* Register is called: the goroutine is at c.mu.Lock().
RegisterBegin(t, qualifier, service) ==
    /\ At(t, "idle")
    /\ threads' = [threads EXCEPT
                     ![t] = Running("reg_lock", "Register", qualifier, service, 0, <<>>)]
    /\ UNCHANGED <<services, structType, plain, fields, call, old, accepted, mu>>

\* Register taking the lock for reading: c.mu.RLock() for c.mu.Lock().
RegisterLock_TakesRLock(t) ==
    /\ At(t, "reg_lock")
    /\ mu' = RLock(mu, t)
    /\ threads' = [threads EXCEPT ![t].pc = "reg_check"]
    /\ UNCHANGED <<services, structType, plain, fields, call, old, accepted>>

\* c.mu.Lock(): the writer is admitted and waits for the readers to leave.
RegisterLock(t) ==
    /\ At(t, "reg_lock")
    /\ CanLock(mu)
    /\ mu' = Lock(mu, t)
    /\ threads' = [threads EXCEPT ![t].pc = "reg_check"]
    /\ UNCHANGED <<services, structType, plain, fields, call, old, accepted>>

\* Register releasing the lock after its tests and storing outside it.
RegisterCheck_UnlocksBeforeStore(t) ==
    LET r == Register(services, threads[t].qualifier, threads[t].service)
    IN  /\ At(t, "reg_check")
        /\ Acquired(mu, t)
        /\ mu' = Unlock(mu)
        /\ IF r.err # NoError
           THEN /\ threads' = [threads EXCEPT ![t] = Idle]
                /\ call' = Returned("Register", threads[t].qualifier,
                                    threads[t].service, NilTarget, r.err,
                                    NilInterface, <<>>)
           ELSE /\ threads' = [threads EXCEPT ![t].pc = "reg_store"]
                /\ UNCHANGED call
        /\ UNCHANGED <<services, structType, plain, fields, old, accepted>>

\* Register unlocking at the end of the function instead of deferring: the
\* early returns leave the lock held.
RegisterCheck_NoDeferredUnlock(t) ==
    LET r == Register(services, threads[t].qualifier, threads[t].service)
    IN  /\ At(t, "reg_check")
        /\ Acquired(mu, t)
        /\ IF r.err # NoError
           THEN /\ threads' = [threads EXCEPT ![t] = Idle]
                /\ call' = Returned("Register", threads[t].qualifier,
                                    threads[t].service, NilTarget, r.err,
                                    NilInterface, <<>>)
                /\ UNCHANGED mu
           ELSE /\ threads' = [threads EXCEPT ![t].pc = "reg_store"]
                /\ UNCHANGED <<mu, call>>
        /\ UNCHANGED <<services, structType, plain, fields, old, accepted>>

\* Register without its exists test: only the nil test can fail.
RegisterCheck_NoExistsTest(t) ==
    LET r == Register(EmptyRegistry, threads[t].qualifier, threads[t].service)
    IN  /\ At(t, "reg_check")
        /\ Acquired(mu, t)
        /\ IF r.err # NoError
           THEN /\ mu' = Unlock(mu)
                /\ threads' = [threads EXCEPT ![t] = Idle]
                /\ call' = Returned("Register", threads[t].qualifier,
                                    threads[t].service, NilTarget, r.err,
                                    NilInterface, <<>>)
           ELSE /\ threads' = [threads EXCEPT ![t].pc = "reg_store"]
                /\ UNCHANGED <<mu, call>>
        /\ UNCHANGED <<services, structType, plain, fields, old, accepted>>

\* Lock returns; the nil test and the exists test.  A failed test returns
\* the error, and the deferred Unlock runs.
RegisterCheck(t) ==
    LET r == Register(services, threads[t].qualifier, threads[t].service)
    IN  /\ At(t, "reg_check")
        /\ Acquired(mu, t)
        /\ IF r.err # NoError
           THEN /\ mu' = Unlock(mu)
                /\ threads' = [threads EXCEPT ![t] = Idle]
                /\ call' = Returned("Register", threads[t].qualifier,
                                    threads[t].service, NilTarget, r.err,
                                    NilInterface, <<>>)
           ELSE /\ threads' = [threads EXCEPT ![t].pc = "reg_store"]
                /\ UNCHANGED <<mu, call>>
        /\ UNCHANGED <<services, structType, plain, fields, old, accepted>>

\* c.services[qualifier] = service; return nil, and the deferred Unlock.
RegisterStore(t) ==
    /\ At(t, "reg_store")
    /\ services' = Put(services, threads[t].qualifier, threads[t].service)
    /\ accepted' = Put(accepted, threads[t].qualifier, threads[t].service)
    /\ mu' = Unlock(mu)
    /\ threads' = [threads EXCEPT ![t] = Idle]
    /\ call' = Returned("Register", threads[t].qualifier, threads[t].service,
                        NilTarget, NoError, NilInterface, <<>>)
    /\ UNCHANGED <<structType, plain, fields, old>>

\* Resolve is called: the goroutine is at c.mu.RLock().
ResolveBegin(t, qualifier) ==
    /\ At(t, "idle")
    /\ threads' = [threads EXCEPT
                     ![t] = Running("res_lock", "Resolve", qualifier, NilInterface,
                                    0, <<>>)]
    /\ UNCHANGED <<services, structType, plain, fields, call, old, accepted, mu>>

\* c.mu.RLock()
ResolveRLock(t) ==
    /\ At(t, "res_lock")
    /\ mu' = RLock(mu, t)
    /\ threads' = [threads EXCEPT ![t].pc = "res_read"]
    /\ UNCHANGED <<services, structType, plain, fields, call, old, accepted>>

\* RLock returns; the lookup, the return, and the deferred RUnlock.
ResolveRead(t) ==
    LET r == Resolve(services, threads[t].qualifier)
    IN  /\ At(t, "res_read")
        /\ Acquired(mu, t)
        /\ services' = r.services
        /\ mu' = RUnlock(mu, t)
        /\ threads' = [threads EXCEPT ![t] = Idle]
        /\ call' = Returned("Resolve", threads[t].qualifier, NilInterface,
                            NilTarget, r.err, r.service, <<>>)
        /\ UNCHANGED <<structType, plain, fields, old, accepted>>

\* InjectStruct with its loop starting at the second field.
InjectBegin_SkipsFirstField(t, target) ==
    LET v == ValidateTarget(target)
        first == NextResolved(structType, 2)
    IN  /\ At(t, "idle")
        /\ \A u \in Threads : threads[u].op # "InjectStruct"
        /\ old' = Snapshot
        /\ IF v # NoError \/ first > Len(structType)
           THEN /\ call' = Returned("InjectStruct", "", NilInterface, target, v,
                                    NilInterface, <<>>)
                /\ UNCHANGED threads
           ELSE /\ threads' = [threads EXCEPT
                                 ![t] = Running("inj_lock", "InjectStruct", "",
                                                NilInterface, first, <<>>)]
                /\ UNCHANGED call
        /\ UNCHANGED <<services, structType, plain, fields, accepted, mu>>

\* InjectStruct is called: the validation of the target and the loop up to
\* its first call of Resolve, where the goroutine is at c.mu.RLock().
InjectBegin(t, target) ==
    LET v == ValidateTarget(target)
        first == NextResolved(structType, 1)
    IN  /\ At(t, "idle")
        /\ \A u \in Threads : threads[u].op # "InjectStruct"
        /\ old' = Snapshot
        /\ IF v # NoError \/ first > Len(structType)
           THEN /\ call' = Returned("InjectStruct", "", NilInterface, target, v,
                                    NilInterface, <<>>)
                /\ UNCHANGED threads
           ELSE /\ threads' = [threads EXCEPT
                                 ![t] = Running("inj_lock", "InjectStruct", "",
                                                NilInterface, first, <<>>)]
                /\ UNCHANGED call
        /\ UNCHANGED <<services, structType, plain, fields, accepted, mu>>

\* c.mu.RLock() in the Resolve call for field i.
InjectRLock(t) ==
    /\ At(t, "inj_lock")
    /\ mu' = RLock(mu, t)
    /\ threads' = [threads EXCEPT ![t].pc = "inj_read"]
    /\ UNCHANGED <<services, structType, plain, fields, call, old, accepted>>

\* InjectStruct keeping the read lock from one field to the next.
InjectRead_KeepsRLock(t) ==
    LET i == threads[t].i
        step == InjectField(services, fields, structType, i)
        resolved == threads[t].resolved \o step.resolved
        next == NextResolved(structType, i + 1)
    IN  /\ At(t, "inj_read")
        /\ Acquired(mu, t)
        /\ services' = step.services
        /\ fields' = step.fields
        /\ IF step.stop \/ next > Len(structType)
           THEN /\ mu' = RUnlock(mu, t)
                /\ threads' = [threads EXCEPT ![t] = Idle]
                /\ call' = Returned("InjectStruct", "", NilInterface, PtrToStruct,
                                    step.err, NilInterface, resolved)
           ELSE /\ threads' = [threads EXCEPT ![t].pc = "inj_lock",
                                              ![t].i = next,
                                              ![t].resolved = resolved]
                /\ UNCHANGED <<mu, call>>
        /\ UNCHANGED <<structType, plain, old, accepted>>

\* RLock returns; the lookup and the deferred RUnlock of Resolve, the rest
\* of the loop body for field i, and the loop up to its next call of
\* Resolve or to the return of InjectStruct.
InjectRead(t) ==
    LET i == threads[t].i
        step == InjectField(services, fields, structType, i)
        resolved == threads[t].resolved \o step.resolved
        next == NextResolved(structType, i + 1)
    IN  /\ At(t, "inj_read")
        /\ Acquired(mu, t)
        /\ services' = step.services
        /\ fields' = step.fields
        /\ mu' = RUnlock(mu, t)
        /\ IF step.stop \/ next > Len(structType)
           THEN /\ threads' = [threads EXCEPT ![t] = Idle]
                /\ call' = Returned("InjectStruct", "", NilInterface, PtrToStruct,
                                    step.err, NilInterface, resolved)
           ELSE /\ threads' = [threads EXCEPT ![t].pc = "inj_lock",
                                              ![t].i = next,
                                              ![t].resolved = resolved]
                /\ UNCHANGED call
        /\ UNCHANGED <<structType, plain, old, accepted>>

NextConcurrent ==
    \E t \in Threads :
       \/ \E qualifier \in ConcurrentQualifiers, service \in ConcurrentServices :
             RegisterBegin(t, qualifier, service)
       \/ RegisterLock(t)
       \/ RegisterCheck(t)
       \/ RegisterStore(t)
       \/ \E qualifier \in ResolvedQualifiers : ResolveBegin(t, qualifier)
       \/ ResolveRLock(t)
       \/ ResolveRead(t)
       \/ \E target \in ConcurrentTargets : InjectBegin(t, target)
       \/ InjectRLock(t)
       \/ InjectRead(t)

SpecConcurrent == InitConcurrent /\ [][NextConcurrent]_vars

\* The scheduler runs every goroutine that can run.  The writers queue on
\* the mutex inside sync.RWMutex, which hands the lock over in turn once a
\* waiter has waited long (starvation mode): a writer that keeps finding
\* the lock taken by other writers is admitted in the end.
Fairness ==
    \A t \in Threads :
       /\ SF_vars(RegisterLock(t))
       /\ WF_vars(RegisterCheck(t))
       /\ WF_vars(RegisterStore(t))
       /\ WF_vars(ResolveRLock(t))
       /\ WF_vars(ResolveRead(t))
       /\ WF_vars(InjectRLock(t))
       /\ WF_vars(InjectRead(t))

FairSpecConcurrent == SpecConcurrent /\ Fairness

----------------------------------------------------------------------------
(* The plain container of part_002, and the two containers given the same
   calls: `plain` is the plain container, its target and what its last call
   returned. *)

\* Register of part_002.
PlainRegister(svcs, qualifier, service) ==
    IF IsNilInterface(service)
    THEN [err |-> InvalidService, services |-> svcs]
    ELSE IF qualifier \in DOMAIN svcs
    THEN [err |-> DuplicateQualifier, services |-> svcs]
    ELSE [err |-> NoError, services |-> Put(svcs, qualifier, service)]

\* Resolve of part_002.
PlainResolve(svcs, qualifier) ==
    IF qualifier \notin DOMAIN svcs
    THEN [service |-> NilInterface, err |-> NotFound, services |-> svcs]
    ELSE [service |-> svcs[qualifier], err |-> NoError, services |-> svcs]

\* The loop body of part_002 for field i: Resolve first, then CanSet, and
\* either failing returns an error.
PlainInjectField(svcs, flds, layout, i) ==
    LET field == layout[i]
        r == PlainResolve(svcs, field.qualifier)
    IN  IF ~field.tagged
        THEN Iteration(NoError, FALSE, flds, svcs, <<>>)
        ELSE IF r.err # NoError
        THEN Iteration(NotFound, TRUE, flds, r.services, <<field.qualifier>>)
        ELSE IF ~CanSet(field)
        THEN Iteration(UnsettableField, TRUE, flds, r.services,
                       <<field.qualifier>>)
        ELSE IF IsNilInterface(r.service)
        THEN Iteration(Panic, TRUE, flds, r.services, <<field.qualifier>>)
        ELSE IF ~AssignableTo(r.service.type, field.type)
        THEN Iteration(TypeMismatch, TRUE, flds, r.services,
                       <<field.qualifier>>)
        ELSE Iteration(NoError, FALSE, [flds EXCEPT ![i] = r.service],
                       r.services, <<field.qualifier>>)

\* The loop of part_002 from field i on.
RECURSIVE PlainInjectFields(_, _, _, _)
PlainInjectFields(svcs, flds, layout, i) ==
    IF i > Len(layout)
    THEN Iteration(NoError, FALSE, flds, svcs, <<>>)
    ELSE LET step == PlainInjectField(svcs, flds, layout, i)
         IN  IF step.stop
             THEN step
             ELSE LET rest == PlainInjectFields(step.services, step.fields,
                                                layout, i + 1)
                  IN  Iteration(rest.err, rest.stop, rest.fields, rest.services,
                                step.resolved \o rest.resolved)

\* The tests of part_002 on the target: Kind of the value, then Kind of
\* what it points to (Invalid for a nil pointer); Type is taken after them.
PlainValidateTarget(target) ==
    IF target.kind # "Ptr" THEN InvalidTarget
    ELSE IF target.isNil THEN InvalidTarget
    ELSE IF target.elem # "Struct" THEN InvalidTarget
    ELSE NoError

\* InjectStruct of part_002.
PlainInjectStruct(svcs, flds, layout, target) ==
    LET v == PlainValidateTarget(target)
    IN  IF v # NoError
        THEN Iteration(v, TRUE, flds, svcs, <<>>)
        ELSE PlainInjectFields(svcs, flds, layout, 1)

VariantStructTypes == StructTypes \cup {ExportedStruct}

InitVariants ==
    /\ services = EmptyRegistry
    /\ structType \in VariantStructTypes
    /\ fields \in {[i \in 1..Len(structType) |-> ZeroValue(structType[i].type)],
                   [i \in 1..Len(structType) |-> Preset(structType[i].type)]}
    /\ call = Returned("NewContainer", "", NilInterface, NilTarget, NoError,
                       NilInterface, <<>>)
    /\ old = Snapshot
    /\ accepted = EmptyRegistry
    /\ mu = Unlocked
    /\ threads = [t \in Threads |-> Idle]
    /\ plain = PlainContainer(fields)

\* Register(qualifier, service) called on both containers.
RegisterBoth(qualifier, service) ==
    LET r == Register(services, qualifier, service)
        p == PlainRegister(plain.services, qualifier, service)
    IN  /\ services' = r.services
        /\ call' = Returned("Register", qualifier, service, NilTarget, r.err,
                            NilInterface, <<>>)
        /\ old' = Snapshot
        /\ accepted' = IF r.err = NoError
                       THEN Put(accepted, qualifier, service)
                       ELSE accepted
        /\ plain' = [plain EXCEPT !.services = p.services, !.err = p.err,
                                  !.ret = NilInterface]
        /\ UNCHANGED <<structType, fields, mu, threads>>

\* Resolve(qualifier) called on both containers.
ResolveBoth(qualifier) ==
    LET r == Resolve(services, qualifier)
        p == PlainResolve(plain.services, qualifier)
    IN  /\ services' = r.services
        /\ call' = Returned("Resolve", qualifier, NilInterface, NilTarget, r.err,
                            r.service, <<>>)
        /\ old' = Snapshot
        /\ plain' = [plain EXCEPT !.services = p.services, !.err = p.err,
                                  !.ret = p.service]
        /\ UNCHANGED <<structType, fields, accepted, mu, threads>>

\* InjectStruct(target) called on both containers, each with its target.
InjectStructBoth(target) ==
    LET r == InjectStruct(services, fields, structType, target)
        p == PlainInjectStruct(plain.services, plain.fields, structType, target)
    IN  /\ services' = r.services
        /\ fields' = r.fields
        /\ call' = Returned("InjectStruct", "", NilInterface, target, r.err,
                            NilInterface, r.resolved)
        /\ old' = Snapshot
        /\ plain' = [plain EXCEPT !.services = p.services, !.fields = p.fields,
                                  !.err = p.err, !.ret = NilInterface]
        /\ UNCHANGED <<structType, accepted, mu, threads>>

NextVariants ==
    \/ \E qualifier \in Qualifiers, service \in ServiceArgs :
          RegisterBoth(qualifier, service)
    \/ \E qualifier \in Qualifiers : ResolveBoth(qualifier)
    \/ \E target \in TargetArgs : InjectStructBoth(target)

SpecVariants == InitVariants /\ [][NextVariants]_vars

----------------------------------------------------------------------------
(* Properties.  `call` is the call that returned last, `old` the state it
   started from; the current state is the state it left. *)

FieldIndices == 1..Len(structType)

\* Field i carries a di tag and the container can set it.
Writable(i) == structType[i].tagged /\ CanSet(structType[i])

\* The qualifier of the tagged field i has an entry in svcs.
Registered(svcs, i) ==
    structType[i].tagged /\ structType[i].qualifier \in DOMAIN svcs

\* The entry svcs holds for the qualifier of field i.
Entry(svcs, i) == svcs[structType[i].qualifier]

\* Field i is writable and its qualifier's entry does not fit its type.
Mismatched(svcs, i) ==
    /\ Writable(i)
    /\ Registered(svcs, i)
    /\ ~AssignableTo(Entry(svcs, i).type, structType[i].type)

\* Field i is writable and its qualifier's entry fits its type.
Injectable(svcs, i) ==
    /\ Writable(i)
    /\ Registered(svcs, i)
    /\ AssignableTo(Entry(svcs, i).type, structType[i].type)

\* C1: Resolve(q) of a qualifier whose Register call returned nil returns
\* no error and exactly the instance passed to that call, in every state
\* reached by Register, Resolve and InjectStruct calls; Register of a
\* non-nil instance under a qualifier not yet in the registry returns nil.
C1_ResolveReturnsRegistered ==
    /\ \A q \in DOMAIN accepted :
          /\ Resolve(services, q).err = NoError
          /\ Resolve(services, q).service = accepted[q]
    /\ (call.op = "Resolve" /\ call.qualifier \in DOMAIN accepted)
          => call.err = NoError /\ call.ret = accepted[call.qualifier]
    /\ (/\ call.op = "Register"
        /\ ~IsNilInterface(call.service)
        /\ call.qualifier \notin DOMAIN old.services)
          => call.err = NoError

\* Resolve returned the instance of its qualifier while another qualifier
\* holds a different instance.
C1_Witness ==
    /\ call.op = "Resolve"
    /\ call.qualifier \in DOMAIN accepted
    /\ call.ret = accepted[call.qualifier]
    /\ \E q \in DOMAIN accepted : q # call.qualifier /\ accepted[q] # call.ret

\* C2: Register(q, s2) of an instance s2 on a qualifier q already in the
\* registry fails with DuplicateQualifier and leaves the registry as it
\* was; Resolve(q) still returns the instance registered first.
C2_DuplicateRejected ==
    (/\ call.op = "Register"
     /\ ~IsNilInterface(call.service)
     /\ call.qualifier \in DOMAIN old.services)
        => /\ call.err = DuplicateQualifier
           /\ services = old.services
           /\ call.qualifier \in DOMAIN accepted
           /\ Resolve(services, call.qualifier).err = NoError
           /\ Resolve(services, call.qualifier).service = accepted[call.qualifier]

\* A second Register under q, with an instance other than the one q holds,
\* was rejected.
C2_Witness ==
    /\ call.op = "Register"
    /\ call.err = DuplicateQualifier
    /\ call.qualifier \in DOMAIN services
    /\ ~IsAbsent(call.service)
    /\ services[call.qualifier] # call.service

\* C3: Register(q, nil) fails with InvalidService whether or not q is
\* registered, and leaves the registry as it was: a q that was unregistered
\* still resolves to NotFound.
C3_NilRejected ==
    (call.op = "Register" /\ call.service = NilInterface)
        => /\ call.err = InvalidService
           /\ services = old.services
           /\ call.qualifier \notin DOMAIN old.services
                 => Resolve(services, call.qualifier).err = NotFound

\* Register(q, nil) on a q that is registered returned InvalidService.
C3_Witness ==
    /\ call.op = "Register"
    /\ call.service = NilInterface
    /\ call.qualifier \in DOMAIN old.services
    /\ call.err = InvalidService

\* C4: no registry entry holds a nil/absent service value, whatever the
\* caller passed to Register: neither the untyped nil nor a nil pointer of
\* a concrete pointer type.
C4_NoAbsentEntry == \A q \in DOMAIN services : ~IsAbsent(services[q])

\* C5: Resolve(q) returns NotFound exactly when q has no entry in the
\* registry, and then returns the nil instance.
C5_NotFoundIffAbsent ==
    call.op = "Resolve"
        => /\ call.err = NotFound <=> call.qualifier \notin DOMAIN old.services
           /\ call.err \in {NotFound, NoError}
           /\ call.err = NotFound => call.ret = NilInterface

\* Resolve of an unregistered qualifier failed while the registry holds
\* other entries.
C5_Witness ==
    /\ call.op = "Resolve"
    /\ call.err = NotFound
    /\ call.ret = NilInterface
    /\ DOMAIN services # {}

\* C6: Resolve and InjectStruct leave the registry as it was, whatever
\* they return.
C6_ReadsLeaveRegistry ==
    call.op \in {"Resolve", "InjectStruct"} => services = old.services

\* An InjectStruct that resolved a registered and an unregistered
\* qualifier and wrote a field.
C6_Witness ==
    /\ call.op = "InjectStruct"
    /\ fields # old.fields
    /\ \E a, b \in 1..Len(call.resolved) :
          /\ call.resolved[a] \in DOMAIN services
          /\ call.resolved[b] \notin DOMAIN services

\* C7: when InjectStruct returns nil on a pointer to a structure, every
\* writable tagged field whose qualifier was registered when the call began
\* holds the instance registered under that qualifier, the one Resolve
\* returns.
C7_InjectedFieldsHoldRegistered ==
    (call.op = "InjectStruct" /\ call.target = PtrToStruct /\ call.err = NoError)
        => \A i \in FieldIndices :
              (Writable(i) /\ Registered(old.services, i))
                 => /\ fields[i] = Entry(old.services, i)
                    /\ fields[i] = accepted[structType[i].qualifier]

\* A successful injection changed a field while another qualifier holds a
\* different instance.
C7_Witness ==
    /\ call.op = "InjectStruct"
    /\ call.err = NoError
    /\ \E i \in FieldIndices :
          /\ Writable(i)
          /\ Registered(old.services, i)
          /\ old.fields[i] # fields[i]
          /\ \E q \in DOMAIN services : services[q] # fields[i]

\* C8: InjectStruct on a target with a tagged field whose qualifier is
\* unregistered leaves that field at its zero value and returns nil,
\* whatever the field held before the call.
C8_UnregisteredFieldZero ==
    (call.op = "InjectStruct" /\ call.target = PtrToStruct)
        => \A i \in FieldIndices :
              (structType[i].tagged /\ ~Registered(old.services, i))
                 => /\ fields[i] = ZeroValue(structType[i].type)
                    /\ call.err = NoError

\* C8 as amended: the field keeps the value it held before the call, the
\* missing registration is no error (the call fails only with TypeMismatch,
\* on another field), and the fields after it are still processed.
C8_UnregisteredFieldKept ==
    (call.op = "InjectStruct" /\ call.target = PtrToStruct)
        => \A i \in FieldIndices :
              (structType[i].tagged /\ ~Registered(old.services, i))
                 => /\ fields[i] = old.fields[i]
                    /\ call.err \in {NoError, TypeMismatch}
                    /\ call.err = TypeMismatch
                          => \E k \in FieldIndices \ {i} : Mismatched(old.services, k)
                    /\ \A j \in FieldIndices :
                          (/\ j > i
                           /\ Injectable(old.services, j)
                           /\ \A k \in 1..j : ~Mismatched(old.services, k))
                             => fields[j] = Entry(old.services, j)

\* A writable field with an unregistered qualifier kept the non-zero value
\* it held, and a later field was injected.
C8_Witness ==
    /\ call.op = "InjectStruct"
    /\ call.target = PtrToStruct
    /\ \E i, j \in FieldIndices :
          /\ Writable(i)
          /\ ~Registered(old.services, i)
          /\ fields[i] # ZeroValue(structType[i].type)
          /\ j > i
          /\ Injectable(old.services, j)
          /\ fields[j] # old.fields[j]

\* C9: InjectStruct never modifies a field that carries no di tag, for
\* every target and every registry content.
C9_UntaggedUntouched ==
    call.op = "InjectStruct"
        => \A i \in FieldIndices :
              ~structType[i].tagged => fields[i] = old.fields[i]

\* An injection wrote a tagged field and left alone an untagged field to
\* which a registered instance is assignable.
C9_Witness ==
    /\ call.op = "InjectStruct"
    /\ fields # old.fields
    /\ \E i \in FieldIndices :
          /\ ~structType[i].tagged
          /\ \E q \in DOMAIN services :
                /\ AssignableTo(services[q].type, structType[i].type)
                /\ services[q] # fields[i]

\* C10: InjectStruct fails with InvalidTarget on the nil target, on a
\* non-pointer value (a structure passed by value) and on a pointer to a
\* non-structure value; it then resolves nothing and leaves the target and
\* the registry as they were.
C10_InvalidTargetRejected ==
    (call.op = "InjectStruct"
        /\ call.target \in {NilTarget, StructByValue, PtrToString})
        => /\ call.err = InvalidTarget
           /\ call.resolved = <<>>
           /\ fields = old.fields
           /\ services = old.services

\* A pointer to a string was rejected while the registry holds an instance
\* that an injection would have written into a field.
C10_Witness ==
    /\ call.op = "InjectStruct"
    /\ call.target = PtrToString
    /\ call.err = InvalidTarget
    /\ \E i \in FieldIndices :
          Injectable(services, i) /\ fields[i] # Entry(services, i)

\* The first field, in declaration order, that is mismatched against svcs
\* (0 when there is none).
FirstMismatch(svcs) ==
    IF \E k \in FieldIndices : Mismatched(svcs, k)
    THEN CHOOSE k \in FieldIndices :
            Mismatched(svcs, k) /\ \A j \in 1..(k - 1) : ~Mismatched(svcs, j)
    ELSE 0

\* The qualifiers of the writable tagged fields among the first k fields,
\* in declaration order.
RECURSIVE WritableQualifiers(_)
WritableQualifiers(k) ==
    IF k = 0 THEN <<>>
    ELSE IF Writable(k)
    THEN Append(WritableQualifiers(k - 1), structType[k].qualifier)
    ELSE WritableQualifiers(k - 1)

\* C11: the container never panics on caller-supplied input: InjectStruct
\* returns InvalidTarget for every target that is not a non-nil pointer to a
\* structure, a nil pointer of a pointer-to-struct type included, and
\* Register and Resolve return an error value.
C11_NeverPanics ==
    /\ call.err # Panic
    /\ (call.op = "InjectStruct" /\ call.target # PtrToStruct)
          => call.err = InvalidTarget

\* C12: InjectStruct fails with TypeMismatch when a writable tagged field
\* cannot accept the instance resolved for its qualifier; that field and
\* every field declared after it keep the value they had before the call.
C12_MismatchStopsInjection ==
    (/\ call.op = "InjectStruct"
     /\ call.target = PtrToStruct
     /\ FirstMismatch(old.services) # 0)
        => /\ call.err = TypeMismatch
           /\ \A j \in FieldIndices :
                 j >= FirstMismatch(old.services) => fields[j] = old.fields[j]

\* An injection stopped at a mismatched field and left alone a later field
\* whose qualifier holds an assignable instance.
C12_Witness ==
    /\ call.op = "InjectStruct"
    /\ call.err = TypeMismatch
    /\ \E j \in FieldIndices :
          /\ j > FirstMismatch(old.services)
          /\ Injectable(old.services, j)
          /\ fields[j] = old.fields[j]
          /\ fields[j] # Entry(old.services, j)

\* C14: a tagged field that is not writable is skipped: it is never
\* modified, never resolved and never the cause of an error, whatever its
\* qualifier holds, and the fields after it are still processed.
C14_UnwritableSkipped ==
    (call.op = "InjectStruct" /\ call.target = PtrToStruct)
        => \A i \in FieldIndices :
              (structType[i].tagged /\ ~CanSet(structType[i]))
                 => /\ fields[i] = old.fields[i]
                    /\ call.err \in {NoError, TypeMismatch}
                    /\ call.err = TypeMismatch => FirstMismatch(old.services) # 0
                    /\ Len(call.resolved) <= Len(WritableQualifiers(Len(structType)))
                    /\ \A j \in FieldIndices :
                          (/\ j > i
                           /\ Injectable(old.services, j)
                           /\ \A k \in 1..j : ~Mismatched(old.services, k))
                             => fields[j] = Entry(old.services, j)

\* An unwritable field whose qualifier holds a non-assignable instance was
\* passed over and a field after it was injected.
C14_Witness ==
    /\ call.op = "InjectStruct"
    /\ \E i, j \in FieldIndices :
          /\ structType[i].tagged
          /\ ~CanSet(structType[i])
          /\ Registered(old.services, i)
          /\ ~AssignableTo(Entry(old.services, i).type, structType[i].type)
          /\ j > i
          /\ fields[j] # old.fields[j]

\* C16: the registry starts empty and only grows: in every step an entry
\* that is present stays present with the same instance, and the registry
\* changes only by a Register call that returns nil adding its pair.
C16_RegistryOnlyGrows ==
    /\ services = EmptyRegistry
    /\ [][/\ \A q \in DOMAIN services :
                q \in DOMAIN services' /\ services'[q] = services[q]
          /\ services' # services
                => /\ call'.op = "Register"
                   /\ call'.err = NoError
                   /\ call'.qualifier \notin DOMAIN services
                   /\ services' = Put(services, call'.qualifier, call'.service)]_vars

\* A Register of another instance under a registered qualifier returned
\* while the registry holds two entries or more.
C16_Witness ==
    /\ Cardinality(DOMAIN services) >= 2
    /\ call.op = "Register"
    /\ call.qualifier \in DOMAIN old.services
    /\ ~IsNilInterface(call.service)
    /\ call.service # services[call.qualifier]

\* C17: on a pointer to a structure InjectStruct returns an error if and
\* only if some writable tagged field is mismatched, and the error is
\* TypeMismatch; without one it resolves every writable tagged field.
C17_OnlyMismatchFails ==
    (call.op = "InjectStruct" /\ call.target = PtrToStruct)
        => /\ call.err # NoError <=> FirstMismatch(old.services) # 0
           /\ call.err \in {NoError, TypeMismatch}
           /\ call.err = NoError
                 => call.resolved = WritableQualifiers(Len(structType))

\* An injection returned nil over an unregistered writable field, an
\* untagged field and an unwritable field whose qualifier holds a
\* non-assignable instance.
C17_Witness ==
    /\ call.op = "InjectStruct"
    /\ call.target = PtrToStruct
    /\ call.err = NoError
    /\ \E i, j, k \in FieldIndices :
          /\ Writable(i) /\ ~Registered(old.services, i)
          /\ ~structType[j].tagged
          /\ structType[k].tagged /\ ~CanSet(structType[k])
          /\ Registered(old.services, k)
          /\ ~AssignableTo(Entry(old.services, k).type, structType[k].type)

\* C19: the fields are processed in declaration order and an aborted
\* injection is not rolled back: a TypeMismatch is that of the first
\* mismatched field k, the qualifiers resolved are those of the writable
\* fields up to k in declaration order, and every injectable field before k
\* holds the instance assigned to it.
C19_DeclarationOrderNoRollback ==
    (call.op = "InjectStruct" /\ call.target = PtrToStruct)
        => LET k == FirstMismatch(old.services)
           IN  /\ call.err = TypeMismatch => k # 0
               /\ k # 0
                     => /\ call.resolved = WritableQualifiers(k)
                        /\ \A j \in 1..(k - 1) :
                              Injectable(old.services, j)
                                 => fields[j] = Entry(old.services, j)
               /\ k = 0 => call.resolved = WritableQualifiers(Len(structType))

\* An injection failed at a field after having changed an earlier one.
C19_Witness ==
    /\ call.op = "InjectStruct"
    /\ call.err = TypeMismatch
    /\ \E j \in 1..(FirstMismatch(old.services) - 1) :
          /\ Injectable(old.services, j)
          /\ fields[j] # old.fields[j]
          /\ fields[j] = Entry(old.services, j)

\* Goroutine t is inside a critical section: its Lock or RLock has
\* returned and its Unlock or RUnlock has not run.
InCriticalSection(t) ==
    \/ At(t, "reg_store")
    \/ (threads[t].pc \in {"reg_check", "res_read", "inj_read"} /\ Acquired(mu, t))

Writes(t) == threads[t].op = "Register"

HoldsLock(t) == mu.writer = t \/ t \in mu.readers \/ t \in mu.blocked

\* C13: Register calls made concurrently by the goroutines lose no update
\* and report no false duplicate: the registry holds exactly the pairs of
\* the calls that returned nil, a call that returns DuplicateQualifier found
\* the entry of a call that returned nil, and every store adds an entry for
\* a qualifier that had none.
C13_ConcurrentRegistersKept ==
    /\ [](/\ services = accepted
          /\ (call.op = "Register" /\ call.err = NoError)
                => services[call.qualifier] = call.service
          /\ (call.op = "Register" /\ ~IsNilInterface(call.service))
                => \/ call.err = NoError
                   \/ (call.err = DuplicateQualifier
                          /\ call.qualifier \in DOMAIN accepted))
    /\ [][\A t \in Threads :
             (At(t, "reg_store") /\ threads'[t].pc = "idle")
                => /\ threads[t].qualifier \notin DOMAIN services
                   /\ Cardinality(DOMAIN services') = Cardinality(DOMAIN services) + 1
                   /\ call'.err = NoError]_vars

\* Two Register calls for two qualifiers that have no entry yet run at
\* once: one is about to store, the other waits for the lock.
C13_Witness ==
    \E t, u \in Threads :
       /\ At(t, "reg_store")
       /\ At(u, "reg_lock")
       /\ threads[t].qualifier # threads[u].qualifier
       /\ ~IsNilInterface(threads[u].service)
       /\ DOMAIN services = {}

\* C15: the lock gives mutual exclusion on the registry: while a Register
\* is in its critical section no other goroutine is in one, while Resolve
\* calls may be in theirs together; a goroutine in a critical section
\* holds the lock in the mode of its operation.
C15_MutualExclusion ==
    \A t \in Threads :
       InCriticalSection(t)
          => /\ Writes(t) => Locked(mu, t)
             /\ ~Writes(t) => RLocked(mu, t)
             /\ \A u \in Threads \ {t} :
                   InCriticalSection(u) => (~Writes(t) /\ ~Writes(u))

\* Two goroutines are in a read critical section together.
C15_Witness ==
    \E t, u \in Threads :
       /\ t # u
       /\ InCriticalSection(t) /\ At(t, "res_read")
       /\ InCriticalSection(u) /\ At(u, "inj_read")

\* C18: InjectStruct holds the lock only inside its Resolve calls: between
\* the resolutions of two fields it holds none, so a Register can complete
\* there.
C18_NoLockBetweenFields ==
    \A t \in Threads :
       /\ At(t, "inj_lock") => ~HoldsLock(t)
       /\ (threads[t].op = "InjectStruct" /\ HoldsLock(t)) => At(t, "inj_read")

\* An InjectStruct call returned having left an earlier field un-injected,
\* its qualifier registered since, and having injected a later field whose
\* qualifier was registered after the call began.
C18_Witness ==
    /\ call.op = "InjectStruct"
    /\ call.err = NoError
    /\ \A t \in Threads : threads[t].op # "InjectStruct"
    /\ \E i, j \in FieldIndices :
          /\ i < j
          /\ Injectable(services, i)
          /\ fields[i] = old.fields[i]
          /\ fields[i] # Entry(services, i)
          /\ Injectable(services, j)
          /\ ~Registered(old.services, j)
          /\ fields[j] = Entry(services, j)

\* C20: under fair scheduling every call returns, and a goroutine that is
\* in no call holds no lock: every path releases what it acquired.
C20_EveryCallReturns ==
    /\ [](\A t \in Threads : At(t, "idle") => ~HoldsLock(t))
    /\ \A t \in Threads : ~At(t, "idle") ~> At(t, "idle")

\* A Register that got an error waited for the lock behind a reader.
C20_Witness ==
    \E t, u \in Threads :
       /\ At(t, "reg_check")
       /\ mu.writer = t
       /\ u \in mu.readers
       /\ Register(services, threads[t].qualifier, threads[t].service).err # NoError

\* Goroutine t returns from a call of op in this step.
Returns(t, op) == threads[t].op = op /\ threads'[t].pc = "idle"

\* C21: of the Register calls the goroutines make at once for one qualifier
\* with non-nil instances, the one that finds no entry returns nil and
\* stores its instance, and every call that finds an entry returns
\* DuplicateQualifier and stores nothing; an entry is never replaced, and a
\* Resolve of the qualifier that returns afterwards returns the instance of
\* the call that returned nil.
C21_OneRegisterWins ==
    /\ [](\A q \in DOMAIN accepted :
             q \in DOMAIN services /\ services[q] = accepted[q])
    /\ [][/\ \A t \in Threads :
               Returns(t, "Register")
                  => IF threads[t].qualifier \in DOMAIN services
                     THEN /\ call'.err = DuplicateQualifier
                          /\ services' = services
                          /\ accepted' = accepted
                     ELSE /\ call'.err = NoError
                          /\ services' = Put(services, threads[t].qualifier,
                                             threads[t].service)
                          /\ accepted' = Put(accepted, threads[t].qualifier,
                                             threads[t].service)
          /\ \A t \in Threads :
               (Returns(t, "Resolve") /\ threads[t].qualifier \in DOMAIN accepted)
                  => /\ call'.err = NoError
                     /\ call'.ret = accepted[threads[t].qualifier]
          /\ \A q \in DOMAIN accepted :
               q \in DOMAIN accepted' /\ accepted'[q] = accepted[q]]_vars

\* Two Register calls for one qualifier with two instances run at once,
\* the qualifier having no entry: one is about to store, the other waits
\* for the lock.
C21_Witness ==
    \E t, u \in Threads :
       /\ At(t, "reg_store")
       /\ At(u, "reg_lock")
       /\ threads[t].qualifier = threads[u].qualifier
       /\ threads[t].service # threads[u].service
       /\ threads[t].qualifier \notin DOMAIN services

\* C22: an InjectStruct call that returns nil has set every writable field
\* whose qualifier was registered, with an instance the field's type
\* accepts, before the call began, to that instance, whatever Register and
\* Resolve calls the other goroutines made meanwhile.
C22_CompletedRegistrationSeen ==
    (/\ call.op = "InjectStruct"
     /\ call.err = NoError
     /\ \A t \in Threads : threads[t].op # "InjectStruct")
       => \A i \in FieldIndices :
             Injectable(old.services, i) => fields[i] = Entry(old.services, i)

\* An InjectStruct call returned nil having set a field whose qualifier was
\* registered before it began, while another goroutine registered a
\* qualifier during the call.
C22_Witness ==
    /\ call.op = "InjectStruct"
    /\ call.err = NoError
    /\ \A t \in Threads : threads[t].op # "InjectStruct"
    /\ services # old.services
    /\ \E i \in FieldIndices :
          /\ Injectable(old.services, i)
          /\ fields[i] # old.fields[i]
          /\ fields[i] = Entry(old.services, i)

\* C23: a second InjectStruct call on the target of the last one, the
\* registry being the same, returns what the first returned, resolves the
\* same qualifiers and leaves every field and the registry as the first
\* left them.
C23_InjectIdempotent ==
    /\ [](call.op = "InjectStruct"
            => LET again == InjectStruct(services, fields, structType, call.target)
               IN  /\ again.err = call.err
                   /\ again.resolved = call.resolved
                   /\ again.fields = fields
                   /\ again.services = services)
    /\ [][(/\ call.op = "InjectStruct"
           /\ call'.op = "InjectStruct"
           /\ call'.target = call.target)
             => /\ call'.err = call.err
                /\ call'.resolved = call.resolved
                /\ fields' = fields
                /\ services' = services]_vars

\* A second InjectStruct call returned the type mismatch of the first and
\* left the field before the mismatch holding what the first call injected.
C23_Witness ==
    /\ call.op = "InjectStruct"
    /\ call.err = TypeMismatch
    /\ old.fields = fields
    /\ old.services = services
    /\ \E j \in 1..(FirstMismatch(services) - 1) :
          /\ Injectable(services, j)
          /\ fields[j] = Entry(services, j)
          /\ fields[j] # Preset(structType[j].type)

\* The target of both containers is a non-nil pointer to a structure whose
\* tagged fields are all writable with their qualifiers registered.
FullyWirable(target) ==
    /\ target = PtrToStruct
    /\ \A i \in FieldIndices :
          structType[i].tagged => (CanSet(structType[i]) /\ Registered(services, i))

\* The structure has a tagged field that is unwritable or whose qualifier
\* is not registered.
HasSkippedField ==
    \E i \in FieldIndices :
       structType[i].tagged /\ (~CanSet(structType[i]) \/ ~Registered(services, i))

\* The InjectStruct call made in this step ends differently in the two
\* containers: in what it returns or in the target it leaves.
InjectDiffers ==
    /\ call'.op = "InjectStruct"
    /\ (plain'.err # call'.err \/ plain'.fields # fields')

\* Register and Resolve give the same in both containers and keep the two
\* registries equal; InjectStruct called on equal targets, a non-nil
\* pointer to a structure whose tagged fields are all writable and
\* registered, returns the same in both and leaves the targets equal.
C24_EquivalentWhereWirable ==
    /\ [](plain.services = services)
    /\ [](call.op \in {"Register", "Resolve"}
            => (plain.err = call.err /\ plain.ret = call.ret))
    /\ [][(/\ plain.fields = fields
           /\ call'.op = "InjectStruct"
           /\ FullyWirable(call'.target))
             => (plain'.err = call'.err /\ plain'.fields = fields')]_vars

\* C24: the container of container.go and the plain container of part_002,
\* given the same calls, agree on Register and Resolve and on InjectStruct
\* for a fully wirable target, and an InjectStruct call on equal targets
\* ends differently only for a structure with an unresolved or unwritable
\* tagged field, where part_002 returns an error and container.go goes on.
C24_VariantsEquivalent ==
    /\ C24_EquivalentWhereWirable
    /\ [][(plain.fields = fields /\ InjectDiffers)
             => /\ call'.target = PtrToStruct
                /\ HasSkippedField
                /\ plain'.err \in {NotFound, UnsettableField}]_vars

====
